---- MODULE Spec2Model ----
(***************************************************************************)
(* A model of src/augeas.py: the class Augeas, a ctypes wrapper around the *)
(* handle of the native augeas library.                                    *)
(*                                                                         *)
(* State: the wrapper's private attribute __handle, the life phase of the  *)
(* wrapper object, and what the last method call did (the native entry     *)
(* points it invoked, the native memory it read and freed, and how it      *)
(* ended).  The native library is the environment: every native return     *)
(* code and out-parameter is an input drawn from a small set.              *)
(***************************************************************************)
EXTENDS Integers, Sequences, FiniteSets, TLC

VARIABLES
    PY3,        \* six.PY3: fixed for the life of the interpreter
    phase,      \* "new" | "live" (__init__ returned) | "failed" (__init__ raised) | "dead" (__del__ ran)
    handle,     \* self.__handle: "unset" (never assigned) | "null" (None/0) | "open"
    calls,      \* libaugeas entry points invoked by the last method call, in order
    mem,        \* reads and frees of native memory done by the last method call, in order
    res,        \* how the last method call ended
    nclose,     \* number of aug_close calls made so far on this wrapper
    everClosed  \* a call of close() has returned on this wrapper

vars == <<PY3, phase, handle, calls, mem, res, nclose, everClosed>>

----------------------------------------------------------------------------
(* Bounds of the model *)

\* largest count aug_match reports
MaxMatches == 2
\* longest incl / excl list given to add_transform
MaxPatterns == 1
\* cap on the aug_close counter (the code never reaches it)
MaxCloseCalls == 3

----------------------------------------------------------------------------
(* Python values: [t |-> type tag, v |-> payload].  A str holds code points *)
(* on Python 3 and bytes on Python 2; bytes holds bytes.                    *)

PyNone == [t |-> "none", v |-> <<>>]
PyStr(s) == [t |-> "str", v |-> s]
PyBytes(b) == [t |-> "bytes", v |-> b]
PyInt(n) == [t |-> "int", v |-> <<n>>]
PyBool(b) == [t |-> "bool", v |-> <<IF b THEN 1 ELSE 0>>]
PyList(l) == [t |-> "list", v |-> l]

RECURSIVE SeqsUpTo(_, _)
SeqsUpTo(S, n) ==
    IF n = 0 THEN {<<>>}
    ELSE LET shorter == SeqsUpTo(S, n - 1)
         IN shorter \cup {Append(s, c) : s \in shorter, c \in S}

\* the strings enumerated: "a" and e-acute followed by "a" (on Python 3 code
\* points, the first of which takes two UTF-8 bytes)
Strings == {<<97>>, <<233, 97>>}

\* str.encode('utf-8') for code points below 0x800
RECURSIVE Utf8Encode(_)
Utf8Encode(s) ==
    IF s = <<>> THEN <<>>
    ELSE LET c == Head(s)
         IN (IF c < 128 THEN <<c>>
             ELSE <<192 + (c \div 64), 128 + (c % 64)>>) \o Utf8Encode(Tail(s))

\* bytes.decode('utf-8') for well-formed one- and two-byte sequences
RECURSIVE Utf8Decode(_)
Utf8Decode(b) ==
    IF b = <<>> THEN <<>>
    ELSE IF Head(b) < 128 THEN <<Head(b)>> \o Utf8Decode(Tail(b))
    ELSE <<(Head(b) - 192) * 64 + (Head(Tail(b)) - 128)>> \o Utf8Decode(Tail(Tail(b)))

----------------------------------------------------------------------------
(* Exceptions: [kind |-> the Python exception class, msg |-> its message] *)

Err(kind, msg) == [kind |-> kind, msg |-> msg]
NoErr == Err("", "")

ClosedHandleError == Err("RuntimeError", "The Augeas object has already been closed!")
InitializationError == Err("RuntimeError", "Unable to create Augeas object!")
AmbiguousPathError == Err("ValueError", "path specified had too many matches!")
MatchError == Err("RuntimeError", "Error during match procedure!")
SpanError == Err("ValueError", "Error during span procedure")
SaveError == Err("IOError", "Unable to save to file!")
LoadError == Err("RuntimeError", "aug_load() failed!")
InvalidArgument(what) == Err("TypeError", what)
InvalidOperationError(what) == Err("ValueError", what)
\* raised by the interpreter, not by a raise statement of the wrapper
AttributeError(what) == Err("AttributeError", what)

----------------------------------------------------------------------------
(* What one method call does: the handle it leaves, the native calls it    *)
(* made, the native memory it touched and how it ended.                    *)

Eff(h, cs, ms, out, e, val) ==
    [h |-> h, calls |-> cs, mem |-> ms, out |-> out, err |-> e, val |-> val]
Raise(h, cs, e) == Eff(h, cs, <<>>, "raise", e, PyNone)
Return(h, cs, val) == Eff(h, cs, <<>>, "return", NoErr, val)

\* one native call: the entry point, the arguments passed after the handle,
\* the code it returned and what it stored through its out-parameters
Call(fn, args, ret, out) == [fn |-> fn, args |-> args, ret |-> ret, out |-> out]

\* isinstance(x, six.string_types)
IsString(x) == x.t = "str"
\* type(x) == str
TypeIsStr(x) == x.t = "str"
\* the truth value of self.__handle: None and c_void_p(0) are false
Truthy(h) == h = "open"

\* x if not six.PY3 else x.encode('utf-8'): None has no encode
CanEncode(x) == ~PY3 \/ x.t = "str"
Safe(x) == IF ~PY3 THEN x ELSE PyBytes(Utf8Encode(x.v))

\* a native char*: NULL or a NUL-terminated byte string
CNull == [null |-> TRUE, b |-> <<>>]
CStr(b) == [null |-> FALSE, b |-> b]
\* what the native library hands back: UTF-8 text
NativeStrings == {CStr(Utf8Encode(s)) : s \in Strings}
\* ctypes c_char_p.value: None for NULL, else bytes (str on Python 2)
CharPValue(p) ==
    IF p.null THEN PyNone ELSE IF PY3 THEN PyBytes(p.b) ELSE PyStr(p.b)

RetCodes == {-1, 0, 1, 2}

----------------------------------------------------------------------------
(* Augeas.__init__ *)

init(root, loadpath, flags, native) ==
    IF ~IsString(root) /\ root # PyNone
    THEN Raise("unset", <<>>, InvalidArgument("root MUST be a string or None!"))
    ELSE IF ~IsString(loadpath) /\ loadpath # PyNone
    THEN Raise("unset", <<>>, InvalidArgument("loadpath MUST be a string or None!"))
    ELSE IF flags.t \notin {"int", "bool"}
    THEN Raise("unset", <<>>, InvalidArgument("flag MUST be a flag!"))
    ELSE LET safe_root == IF ~PY3 \/ root = PyNone THEN root ELSE Safe(root)
             safe_loadpath == IF ~PY3 \/ loadpath = PyNone THEN loadpath ELSE Safe(loadpath)
             c == Call("aug_init", <<safe_root, safe_loadpath, flags>>, 0, native)
         IN IF ~Truthy(native)
            THEN Raise(native, <<c>>, InitializationError)
            ELSE Return(native, <<c>>, PyNone)

----------------------------------------------------------------------------
(* Augeas.close *)

\* close that forgets to mark the object as closed
close_mut_nonull(h) ==
    IF h = "unset"
    THEN Raise(h, <<>>, AttributeError("_Augeas__handle"))
    ELSE IF ~Truthy(h)
    THEN Return(h, <<>>, PyNone)
    ELSE Return(h, <<Call("aug_close", <<>>, 0, <<>>)>>, PyNone)

close(h) ==
    IF h = "unset"
    THEN Raise(h, <<>>, AttributeError("_Augeas__handle"))
    ELSE IF ~Truthy(h)
    THEN Return(h, <<>>, PyNone)
    ELSE Return("null", <<Call("aug_close", <<>>, 0, <<>>)>>, PyNone)

----------------------------------------------------------------------------
(* Augeas.get *)

\* aug_get: the nodes matching the path, its return code, the value it stores.
\* libaugeas answers more than one match, like any error, with a negative
\* code; the wrapper's test (ret > 1) allows for a count.
NativeGetOutcomes ==
    {[nmatch |-> 0, ret |-> r, value |-> CNull] : r \in {0, -1}}
    \cup {[nmatch |-> 1, ret |-> 1, value |-> p] : p \in NativeStrings \cup {CNull}}
    \cup {[nmatch |-> 2, ret |-> r, value |-> CNull] : r \in {-1, 2}}

get(h, path, nat) ==
    IF ~IsString(path)
    THEN Raise(h, <<>>, InvalidArgument("path MUST be a string!"))
    ELSE IF ~Truthy(h)
    THEN Raise(h, <<>>, ClosedHandleError)
    ELSE LET c == Call("aug_get", <<Safe(path)>>, nat.ret, nat)
             value == CharPValue(nat.value)
         IN IF nat.ret > 1
            THEN Raise(h, <<c>>, AmbiguousPathError)
            ELSE IF ~PY3 \/ value.t # "bytes"
            THEN Return(h, <<c>>, value)
            ELSE Return(h, <<c>>, PyStr(Utf8Decode(value.v)))

----------------------------------------------------------------------------
(* Augeas.set, setm, defvar, defnode, move, insert, remove *)

NoneHasNoEncode == AttributeError("'NoneType' object has no attribute 'encode'")

\* set that looks at the handle before it looks at the arguments
set_mut_handle_first(h, path, value, ret) ==
    IF ~Truthy(h)
    THEN Raise(h, <<>>, ClosedHandleError)
    ELSE IF ~IsString(path)
    THEN Raise(h, <<>>, InvalidArgument("path MUST be a string!"))
    ELSE IF ~IsString(value) /\ value # PyNone
    THEN Raise(h, <<>>, InvalidArgument("value MUST be a string or None!"))
    ELSE IF ~CanEncode(value)
    THEN Raise(h, <<>>, NoneHasNoEncode)
    ELSE LET c == Call("aug_set", <<Safe(path), Safe(value)>>, ret, <<>>)
         IN IF ret # 0
            THEN Raise(h, <<c>>, InvalidOperationError("Unable to set value to path!"))
            ELSE Return(h, <<c>>, PyNone)

set(h, path, value, ret) ==
    IF ~IsString(path)
    THEN Raise(h, <<>>, InvalidArgument("path MUST be a string!"))
    ELSE IF ~IsString(value) /\ value # PyNone
    THEN Raise(h, <<>>, InvalidArgument("value MUST be a string or None!"))
    ELSE IF ~Truthy(h)
    THEN Raise(h, <<>>, ClosedHandleError)
    ELSE IF ~CanEncode(value)
    THEN Raise(h, <<>>, NoneHasNoEncode)
    ELSE LET c == Call("aug_set", <<Safe(path), Safe(value)>>, ret, <<>>)
         IN IF ret # 0
            THEN Raise(h, <<c>>, InvalidOperationError("Unable to set value to path!"))
            ELSE Return(h, <<c>>, PyNone)

setm(h, base, sub, value, ret) ==
    IF ~TypeIsStr(base)
    THEN Raise(h, <<>>, InvalidArgument("base MUST be a string!"))
    ELSE IF ~TypeIsStr(sub) /\ sub # PyNone
    THEN Raise(h, <<>>, InvalidArgument("sub MUST be a string or None!"))
    ELSE IF ~TypeIsStr(value)
    THEN Raise(h, <<>>, InvalidArgument("value MUST be a string!"))
    ELSE IF ~Truthy(h)
    THEN Raise(h, <<>>, ClosedHandleError)
    ELSE IF ~CanEncode(sub)
    THEN Raise(h, <<>>, NoneHasNoEncode)
    ELSE LET c == Call("aug_setm", <<Safe(base), Safe(sub), Safe(value)>>, ret, <<>>)
         IN IF ret < 0
            THEN Raise(h, <<c>>, InvalidOperationError("Unable to set value to path!"))
            ELSE Return(h, <<c>>, PyInt(ret))

defvar(h, name, expr, ret) ==
    IF ~TypeIsStr(name)
    THEN Raise(h, <<>>, InvalidArgument("name MUST be a string!"))
    ELSE IF ~TypeIsStr(expr) /\ expr # PyNone
    THEN Raise(h, <<>>, InvalidArgument("expr MUST be a string or None!"))
    ELSE IF ~Truthy(h)
    THEN Raise(h, <<>>, ClosedHandleError)
    ELSE IF ~CanEncode(expr)
    THEN Raise(h, <<>>, NoneHasNoEncode)
    ELSE LET c == Call("aug_defvar", <<Safe(name), Safe(expr)>>, ret, <<>>)
         IN IF ret < 0
            THEN Raise(h, <<c>>, InvalidOperationError("Unable to register variable!"))
            ELSE Return(h, <<c>>, PyInt(ret))

defnode(h, name, expr, value, ret) ==
    IF ~TypeIsStr(name)
    THEN Raise(h, <<>>, InvalidArgument("name MUST be a string!"))
    ELSE IF ~TypeIsStr(expr)
    THEN Raise(h, <<>>, InvalidArgument("expr MUST be a string!"))
    ELSE IF ~TypeIsStr(value)
    THEN Raise(h, <<>>, InvalidArgument("value MUST be a string!"))
    ELSE IF ~Truthy(h)
    THEN Raise(h, <<>>, ClosedHandleError)
    ELSE LET c == Call("aug_defnode", <<Safe(name), Safe(expr), Safe(value), PyNone>>, ret, <<>>)
         IN IF ret < 0
            THEN Raise(h, <<c>>, InvalidOperationError("Unable to register node!"))
            ELSE Return(h, <<c>>, PyInt(ret))

move(h, src, dst, ret) ==
    IF ~IsString(src)
    THEN Raise(h, <<>>, InvalidArgument("src MUST be a string!"))
    ELSE IF ~IsString(dst)
    THEN Raise(h, <<>>, InvalidArgument("dst MUST be a string!"))
    ELSE IF ~Truthy(h)
    THEN Raise(h, <<>>, ClosedHandleError)
    ELSE LET c == Call("aug_mv", <<Safe(src), Safe(dst)>>, ret, <<>>)
         IN IF ret # 0
            THEN Raise(h, <<c>>, InvalidOperationError("Unable to move src to dst!"))
            ELSE Return(h, <<c>>, PyNone)

insert(h, path, label, before, ret) ==
    IF ~IsString(path)
    THEN Raise(h, <<>>, InvalidArgument("path MUST be a string!"))
    ELSE IF ~IsString(label)
    THEN Raise(h, <<>>, InvalidArgument("label MUST be a string!"))
    ELSE IF ~Truthy(h)
    THEN Raise(h, <<>>, ClosedHandleError)
    ELSE LET c == Call("aug_insert",
                       <<Safe(path), Safe(label), PyInt(IF before THEN 1 ELSE 0)>>, ret, <<>>)
         IN IF ret # 0
            THEN Raise(h, <<c>>, InvalidOperationError("Unable to insert label!"))
            ELSE Return(h, <<c>>, PyNone)

remove(h, path, ret) ==
    IF ~IsString(path)
    THEN Raise(h, <<>>, InvalidArgument("path MUST be a string!"))
    ELSE IF ~Truthy(h)
    THEN Raise(h, <<>>, ClosedHandleError)
    ELSE Return(h, <<Call("aug_rm", <<Safe(path)>>, ret, <<>>)>>, PyInt(ret))

----------------------------------------------------------------------------
(* Augeas.span, save, load *)

\* aug_span: on success it stores a filename (never NULL) and six offsets
NativeSpanOutcomes ==
    {[ret |-> -1, filename |-> CNull, offsets |-> <<0, 0, 0, 0, 0, 0>>]}
    \cup {[ret |-> r, filename |-> f, offsets |-> <<0, 1, 2, 3, 0, 4>>] :
            r \in {0, 1}, f \in NativeStrings}

span(h, path, nat) ==
    IF ~IsString(path)
    THEN Raise(h, <<>>, InvalidArgument("path MUST be a string!"))
    ELSE IF ~Truthy(h)
    THEN Raise(h, <<>>, ClosedHandleError)
    ELSE LET c == Call("aug_span", <<Safe(path)>>, nat.ret, nat)
             filename == CharPValue(nat.filename)
         IN IF nat.ret < 0
            THEN Raise(h, <<c>>, SpanError)
            ELSE IF ~PY3
            THEN Return(h, <<c>>, [t |-> "tuple", v |-> <<filename>> \o nat.offsets])
            ELSE IF filename = PyNone
            THEN Raise(h, <<c>>, AttributeError("'NoneType' object has no attribute 'decode'"))
            ELSE Return(h, <<c>>, [t |-> "tuple",
                                   v |-> <<PyStr(Utf8Decode(filename.v))>> \o nat.offsets])

\* save that raises the wrong exception class
save_mut_runtime(h, ret) ==
    IF ~Truthy(h)
    THEN Raise(h, <<>>, ClosedHandleError)
    ELSE LET c == Call("aug_save", <<>>, ret, <<>>)
         IN IF ret # 0
            THEN Raise(h, <<c>>, Err("RuntimeError", "Unable to save to file!"))
            ELSE Return(h, <<c>>, PyNone)

save(h, ret) ==
    IF ~Truthy(h)
    THEN Raise(h, <<>>, ClosedHandleError)
    ELSE LET c == Call("aug_save", <<>>, ret, <<>>)
         IN IF ret # 0 THEN Raise(h, <<c>>, SaveError) ELSE Return(h, <<c>>, PyNone)

\* load without the check of the handle
load_mut_nocheck(h, ret) ==
    LET c == Call("aug_load", <<>>, ret, <<>>)
    IN IF ret # 0 THEN Raise(h, <<c>>, LoadError) ELSE Return(h, <<c>>, PyNone)

load(h, ret) ==
    IF ~Truthy(h)
    THEN Raise(h, <<>>, ClosedHandleError)
    ELSE LET c == Call("aug_load", <<>>, ret, <<>>)
         IN IF ret # 0 THEN Raise(h, <<c>>, LoadError) ELSE Return(h, <<c>>, PyNone)

----------------------------------------------------------------------------
(* Augeas.match *)

\* aug_match: a negative code, or a count n with a freshly allocated array of
\* n freshly allocated paths
NativeMatchOutcomes ==
    {[ret |-> -1, array |-> <<>>]}
    \cup {[ret |-> Len(a), array |-> a] : a \in SeqsUpTo(NativeStrings, MaxMatches)}

\* an access to native memory: ev is "read" or "free"; obj is "array" (the
\* char** block, idx the entry read) or "string" (the idx-th path)
Ev(ev, obj, idx) == [ev |-> ev, obj |-> obj, idx |-> idx]

\* the loop of lines 361-369, from entry i on: the matches collected and the
\* memory accesses made
RECURSIVE MatchLoop(_, _, _, _)
MatchLoop(array, i, matches, ms) ==
    IF i > Len(array) THEN [matches |-> matches, mem |-> ms]
    ELSE IF array[i].null
    THEN MatchLoop(array, i + 1, matches, Append(ms, Ev("read", "array", i)))
    ELSE LET value == CharPValue(array[i])
             item == IF ~PY3 THEN value ELSE PyStr(Utf8Decode(value.v))
         IN MatchLoop(array, i + 1, Append(matches, item),
                      ms \o <<Ev("read", "array", i),
                              Ev("read", "array", i), Ev("read", "string", i),
                              Ev("read", "array", i), Ev("free", "string", i)>>)

\* match that frees the array before it walks it
match_mut_free_first(h, path, nat) ==
    IF ~IsString(path)
    THEN Raise(h, <<>>, InvalidArgument("path MUST be a string!"))
    ELSE IF ~Truthy(h)
    THEN Raise(h, <<>>, ClosedHandleError)
    ELSE LET c == Call("aug_match", <<Safe(path)>>, nat.ret, nat.array)
         IN IF nat.ret < 0
            THEN Raise(h, <<c>>, MatchError)
            ELSE LET l == MatchLoop(nat.array, 1, <<>>, <<>>)
                 IN Eff(h, <<c>>, <<Ev("free", "array", 0)>> \o l.mem,
                        "return", NoErr, PyList(l.matches))

match(h, path, nat) ==
    IF ~IsString(path)
    THEN Raise(h, <<>>, InvalidArgument("path MUST be a string!"))
    ELSE IF ~Truthy(h)
    THEN Raise(h, <<>>, ClosedHandleError)
    ELSE LET c == Call("aug_match", <<Safe(path)>>, nat.ret, nat.array)
         IN IF nat.ret < 0
            THEN Raise(h, <<c>>, MatchError)
            ELSE LET l == MatchLoop(nat.array, 1, <<>>, <<>>)
                 IN Eff(h, <<c>>, Append(l.mem, Ev("free", "array", 0)),
                        "return", NoErr, PyList(l.matches))

----------------------------------------------------------------------------
(* Augeas.clear_transforms, add_transform *)

\* "/augeas/load/*"
LoadGlob == <<47, 97, 117, 103, 101, 97, 115, 47, 108, 111, 97, 100, 47, 42>>
\* "/augeas/load/"
LoadPrefix == <<47, 97, 117, 103, 101, 97, 115, 47, 108, 111, 97, 100, 47>>
\* "lens", "incl[", "excl[", "]", "/"
LensLabel == <<108, 101, 110, 115>>
InclOpen == <<105, 110, 99, 108, 91>>
ExclOpen == <<101, 120, 99, 108, 91>>
IndexClose == <<93>>
Slash == <<47>>

clear_transforms(h, ret) == remove(h, PyStr(LoadGlob), ret)

\* "%d" % n for n >= 0
RECURSIVE Decimal(_)
Decimal(n) ==
    IF n < 10 THEN <<48 + n>> ELSE Decimal(n \div 10) \o <<48 + (n % 10)>>

\* s.split(".")[0]: s up to its first "."
RECURSIVE BeforeFirstDot(_)
BeforeFirstDot(s) ==
    IF s = <<>> \/ Head(s) = 46 THEN <<>>
    ELSE <<Head(s)>> \o BeforeFirstDot(Tail(s))

\* a replace that strips a leading "@" only
DropLeadingAt_mut(s) == IF s # <<>> /\ Head(s) = 64 THEN Tail(s) ELSE s

\* s.replace("@", "", 1): s without its first "@", wherever it stands
RECURSIVE DropFirstAt(_)
DropFirstAt(s) ==
    IF s = <<>> THEN <<>>
    ELSE IF Head(s) = 64 THEN Tail(s)
    ELSE <<Head(s)>> \o DropFirstAt(Tail(s))

\* not name: None and "" are false
Falsy(x) == x = PyNone \/ (x.t = "str" /\ x.v = <<>>)

\* lines 484-487: type(x) in six.string_types.  six.string_types is (str,)
\* on Python 3 and (basestring,) on Python 2, where type("...") is str, which
\* is not basestring: there a string is left as it is and indexed by character
AsPatterns(x) ==
    IF x.t = "str"
    THEN IF PY3 THEN <<x>> ELSE [i \in 1..Len(x.v) |-> PyStr(<<x.v[i]>>)]
    ELSE x.v

\* the set calls of lines 490-494, in order: <<path, value>>
SetPlan(lens, incl, name, excl) ==
    LET nm == IF Falsy(name) THEN DropFirstAt(BeforeFirstDot(lens.v)) ELSE name.v
        xfm == LoadPrefix \o nm \o Slash
        ins == AsPatterns(incl)
        exs == AsPatterns(excl)
    IN <<<<PyStr(xfm \o LensLabel), lens>>>>
       \o [i \in 1..Len(ins) |-> <<PyStr(xfm \o InclOpen \o Decimal(i) \o IndexClose), ins[i]>>]
       \o [i \in 1..Len(exs) |-> <<PyStr(xfm \o ExclOpen \o Decimal(i) \o IndexClose), exs[i]>>]

\* the calls of self.set from the i-th on; rets[i] is what the i-th aug_set
\* returns.  The first one that raises ends add_transform.
RECURSIVE RunSets(_, _, _, _, _)
RunSets(h, plan, rets, i, cs) ==
    IF i > Len(plan) THEN Return(h, cs, PyNone)
    ELSE LET e == set(h, plan[i][1], plan[i][2], rets[i])
         IN IF e.out = "raise" THEN Raise(e.h, cs \o e.calls, e.err)
            ELSE RunSets(e.h, plan, rets, i + 1, cs \o e.calls)

add_transform(h, lens, incl, name, excl, rets) ==
    IF Falsy(name) /\ lens.t # "str"
    THEN Raise(h, <<>>, AttributeError("object has no attribute 'split'"))
    ELSE RunSets(h, SetPlan(lens, incl, name, excl), rets, 1, <<>>)

----------------------------------------------------------------------------
(* The arguments enumerated *)

StrArgs == {PyStr(s) : s \in Strings}
\* an argument of the wrong type
BadArg == PyInt(5)
PathArgs == StrArgs \cup {BadArg}
OptArgs == StrArgs \cup {PyNone, BadArg}

\* add_transform: lenses "@a.b", "b@c", "a.b.@c" and one of the wrong type;
\* names None, "" and "n"; patterns given as one string or as a list
LensArgs ==
    {PyStr(<<64, 97, 46, 98>>), PyStr(<<98, 64, 99>>),
     PyStr(<<97, 46, 98, 46, 64, 99>>), BadArg}
NameArgs == {PyNone, PyStr(<<>>), PyStr(<<110>>)}
\* the lens and the name together: every lens without a name, and the first
\* and the ill-typed lens with every name
LensNameArgs ==
    {<<l, PyNone>> : l \in LensArgs}
    \cup {<<l, n>> : l \in {PyStr(<<64, 97, 46, 98>>), BadArg}, n \in NameArgs}
InclArgs ==
    {PyStr(<<233, 97>>)}
    \cup {PyList(l) : l \in SeqsUpTo({PyStr(<<97>>), PyStr(<<233, 97>>)}, MaxPatterns)}
ExclArgs ==
    {PyStr(<<120>>)} \cup {PyList(l) : l \in SeqsUpTo({PyStr(<<120>>)}, MaxPatterns)}
\* what n aug_set calls return: all succeed, or the k-th is the first to fail
SetRets(n) == {[i \in 1..n |-> IF i = k THEN -1 ELSE 0] : k \in 0..n}

----------------------------------------------------------------------------
(* The state machine *)

NoRes ==
    [op |-> "", args |-> <<>>, hpre |-> "unset", ppre |-> "new",
     out |-> "", err |-> NoErr, val |-> PyNone]

Init ==
    /\ PY3 \in BOOLEAN
    /\ phase = "new"
    /\ handle = "unset"
    /\ calls = <<>>
    /\ mem = <<>>
    /\ res = NoRes
    /\ nclose = 0
    /\ everClosed = FALSE

NCloseCalls(cs) == Cardinality({i \in 1..Len(cs) : cs[i].fn = "aug_close"})

\* the effect e of method op called with args becomes the state
Apply(op, args, e) ==
    \E eff \in {e} :
       /\ handle' = eff.h
       /\ calls' = eff.calls
       /\ mem' = eff.mem
       /\ res' = [op |-> op, args |-> args, hpre |-> handle, ppre |-> phase,
                  out |-> eff.out, err |-> eff.err, val |-> eff.val]
       /\ nclose' = nclose + NCloseCalls(eff.calls)
       /\ UNCHANGED PY3

Construct ==
    /\ phase = "new"
    /\ \E root \in {PyNone, PyStr(<<97>>), BadArg},
          loadpath \in {PyNone, PyStr(<<97>>), BadArg},
          flags \in {PyInt(0), PyInt(32), PyNone},
          native \in {"null", "open"} :
          LET e == init(root, loadpath, flags, native)
          IN /\ Apply("__init__", <<root, loadpath, flags>>, e)
             /\ phase' = IF e.out = "return" THEN "live" ELSE "failed"
    /\ UNCHANGED everClosed

Close ==
    /\ phase \in {"live", "failed"}
    /\ nclose < MaxCloseCalls
    /\ LET e == close(handle)
       IN /\ Apply("close", <<>>, e)
          /\ everClosed' = (everClosed \/ e.out = "return")
    /\ UNCHANGED phase

\* __del__: the interpreter finalizes the object, whether or not __init__ succeeded
Del ==
    /\ phase \in {"live", "failed"}
    /\ nclose < MaxCloseCalls
    /\ LET e == close(handle)
       IN /\ Apply("__del__", <<>>, e)
          /\ everClosed' = (everClosed \/ e.out = "return")
    /\ phase' = "dead"

Get ==
    /\ phase = "live"
    /\ \E path \in PathArgs, nat \in NativeGetOutcomes :
          Apply("get", <<path>>, get(handle, path, nat))
    /\ UNCHANGED <<phase, everClosed>>

Set ==
    /\ phase = "live"
    /\ \E path \in PathArgs, value \in OptArgs, ret \in RetCodes :
          Apply("set", <<path, value>>, set(handle, path, value, ret))
    /\ UNCHANGED <<phase, everClosed>>

Setm ==
    /\ phase = "live"
    /\ \E base \in PathArgs, sub \in OptArgs, value \in PathArgs, ret \in RetCodes :
          Apply("setm", <<base, sub, value>>, setm(handle, base, sub, value, ret))
    /\ UNCHANGED <<phase, everClosed>>

Defvar ==
    /\ phase = "live"
    /\ \E name \in PathArgs, expr \in OptArgs, ret \in RetCodes :
          Apply("defvar", <<name, expr>>, defvar(handle, name, expr, ret))
    /\ UNCHANGED <<phase, everClosed>>

Defnode ==
    /\ phase = "live"
    /\ \E name \in PathArgs, expr \in PathArgs, value \in PathArgs, ret \in RetCodes :
          Apply("defnode", <<name, expr, value>>, defnode(handle, name, expr, value, ret))
    /\ UNCHANGED <<phase, everClosed>>

Move ==
    /\ phase = "live"
    /\ \E src \in PathArgs, dst \in PathArgs, ret \in RetCodes :
          Apply("move", <<src, dst>>, move(handle, src, dst, ret))
    /\ UNCHANGED <<phase, everClosed>>

Insert ==
    /\ phase = "live"
    /\ \E path \in PathArgs, label \in PathArgs, before \in BOOLEAN, ret \in RetCodes :
          Apply("insert", <<path, label, PyBool(before)>>,
                insert(handle, path, label, before, ret))
    /\ UNCHANGED <<phase, everClosed>>

Remove ==
    /\ phase = "live"
    /\ \E path \in PathArgs, ret \in RetCodes :
          Apply("remove", <<path>>, remove(handle, path, ret))
    /\ UNCHANGED <<phase, everClosed>>

Match ==
    /\ phase = "live"
    /\ \E path \in PathArgs, nat \in NativeMatchOutcomes :
          Apply("match", <<path>>, match(handle, path, nat))
    /\ UNCHANGED <<phase, everClosed>>

Span ==
    /\ phase = "live"
    /\ \E path \in PathArgs, nat \in NativeSpanOutcomes :
          Apply("span", <<path>>, span(handle, path, nat))
    /\ UNCHANGED <<phase, everClosed>>

Save ==
    /\ phase = "live"
    /\ \E ret \in RetCodes : Apply("save", <<>>, save(handle, ret))
    /\ UNCHANGED <<phase, everClosed>>

Load ==
    /\ phase = "live"
    /\ \E ret \in RetCodes : Apply("load", <<>>, load(handle, ret))
    /\ UNCHANGED <<phase, everClosed>>

ClearTransforms ==
    /\ phase = "live"
    /\ \E ret \in RetCodes : Apply("clear_transforms", <<>>, clear_transforms(handle, ret))
    /\ UNCHANGED <<phase, everClosed>>

AddTransform ==
    /\ phase = "live"
    /\ \E ln \in LensNameArgs, incl \in InclArgs, excl \in ExclArgs :
       LET lens == ln[1]
           name == ln[2]
       IN \E rets \in SetRets(Len(SetPlan(lens, incl, name, excl))) :
          Apply("add_transform", <<lens, incl, name, excl>>,
                add_transform(handle, lens, incl, name, excl, rets))
    /\ UNCHANGED <<phase, everClosed>>

Next ==
    \/ Construct
    \/ Close
    \/ Del
    \/ Get
    \/ Set
    \/ Setm
    \/ Defvar
    \/ Defnode
    \/ Move
    \/ Insert
    \/ Remove
    \/ Match
    \/ Span
    \/ Save
    \/ Load
    \/ ClearTransforms
    \/ AddTransform

Spec == Init /\ [][Next]_vars

----------------------------------------------------------------------------
(* Vocabulary of the properties *)

NonCloseOps ==
    {"get", "set", "setm", "defvar", "defnode", "move", "insert", "remove",
     "match", "span", "save", "load", "clear_transforms", "add_transform"}

IsStr(x) == x.t = "str"
IsOptStr(x) == x.t \in {"str", "none"}
IsPatterns(x) ==
    \/ x.t = "str"
    \/ x.t = "list" /\ \A i \in 1..Len(x.v) : x.v[i].t = "str"

\* the arguments have the types the operation documents
WellTyped(op, args) ==
    CASE op \in {"get", "remove", "match", "span"} -> IsStr(args[1])
      [] op = "set" -> IsStr(args[1]) /\ IsOptStr(args[2])
      [] op = "setm" -> IsStr(args[1]) /\ IsOptStr(args[2]) /\ IsStr(args[3])
      [] op = "defvar" -> IsStr(args[1]) /\ IsOptStr(args[2])
      [] op = "defnode" -> IsStr(args[1]) /\ IsStr(args[2]) /\ IsStr(args[3])
      [] op = "move" -> IsStr(args[1]) /\ IsStr(args[2])
      [] op = "insert" -> IsStr(args[1]) /\ IsStr(args[2]) /\ args[3].t = "bool"
      [] op = "add_transform" ->
            IsStr(args[1]) /\ IsPatterns(args[2]) /\ IsOptStr(args[3]) /\ IsPatterns(args[4])
      [] OTHER -> TRUE

\* the last call was an operation other than close on a wrapper whose
\* construction succeeded
OpDone == res.op \in NonCloseOps /\ res.ppre = "live"
OnOpen == OpDone /\ res.hpre = "open"
OnClosed == OpDone /\ res.hpre = "null"
Raised(e) == res.out = "raise" /\ res.err = e
Returned == res.out = "return"

----------------------------------------------------------------------------
(* C1: on a wrapper whose construction succeeded, aug_close is called at    *)
(* most once whatever the sequence of operations, close() calls and the     *)
(* final __del__; it has been called exactly once, and the handle is None,  *)
(* as soon as one close() has returned; every later close() returns         *)
(* normally without a native call.                                          *)

CloseOnceState ==
    (phase = "live" \/ (phase = "dead" /\ res.ppre = "live")) =>
        /\ nclose <= 1
        /\ everClosed => (nclose = 1 /\ handle = "null")
        /\ phase = "dead" => everClosed

LaterCloseStep ==
    (phase = "live" /\ everClosed /\ res'.op \in {"close", "__del__"}) =>
        (res'.out = "return" /\ calls' = <<>> /\ nclose' = nclose /\ handle' = "null")

C1_CloseExactlyOnce == [](CloseOnceState) /\ [][LaterCloseStep]_vars

\* closed explicitly, then closed again by __del__: one aug_close in all
C1_Witness ==
    phase = "dead" /\ res.ppre = "live" /\ res.hpre = "null" /\ nclose = 1

----------------------------------------------------------------------------
(* C2: on a wrapper whose construction succeeded, an operation other than   *)
(* close given correctly typed arguments raises the closed-handle error     *)
(* exactly when close() has been called before; it then makes no native     *)
(* call; and no operation other than close changes the handle.              *)

C2_ClosedErrorIffClosed ==
    OpDone =>
        /\ WellTyped(res.op, res.args) => (Raised(ClosedHandleError) <=> everClosed)
        /\ Raised(ClosedHandleError) => calls = <<>>
        /\ handle = res.hpre
        /\ (handle = "null") <=> everClosed

C2_Witness ==
    /\ OpDone /\ res.op = "add_transform" /\ WellTyped(res.op, res.args)
    /\ everClosed /\ Raised(ClosedHandleError) /\ calls = <<>>

----------------------------------------------------------------------------
(* C3, as claimed: on a closed wrapper every operation other than close     *)
(* raises the closed-handle error whatever its arguments.                   *)

----------------------------------------------------------------------------
(* C4, as claimed: no failure other than use after close has the error kind *)
(* of the closed-handle error.                                              *)

UseAfterClose == OnClosed /\ Raised(ClosedHandleError)

C4_Original ==
    (res.out = "raise" /\ ~UseAfterClose) => res.err.kind # ClosedHandleError.kind

(* C4, amended: the closed-handle error is a RuntimeError told apart by its *)
(* message only: no other failure carries that message, and the failures    *)
(* sharing its kind are exactly those of construction (null native handle), *)
(* match (negative count) and load (nonzero result); every other failure    *)
(* has another kind.                                                        *)

C4_DistinctByMessage ==
    (res.out = "raise" /\ ~UseAfterClose) =>
        /\ res.err.msg # ClosedHandleError.msg
        /\ res.err.kind = ClosedHandleError.kind =>
              \/ res.op = "__init__" /\ res.err = InitializationError
              \/ res.op = "match" /\ res.err = MatchError
              \/ res.op = "load" /\ res.err = LoadError

C4_Witness ==
    OnOpen /\ res.op = "match" /\ Raised(MatchError) /\ calls[1].ret < 0

----------------------------------------------------------------------------
(* C5, as claimed: on an open wrapper, an operation whose native call       *)
(* reported failure (a negative code, or a nonzero one where zero means     *)
(* success) raises.                                                         *)

ZeroOnSuccess == {"aug_set", "aug_mv", "aug_insert", "aug_save", "aug_load"}
NativeFailed(c) == IF c.fn \in ZeroOnSuccess THEN c.ret # 0 ELSE c.ret < 0

C5_NativeFailureRaises ==
    (OnOpen /\ \E i \in 1..Len(calls) : NativeFailed(calls[i])) => res.out = "raise"

----------------------------------------------------------------------------
(* C6, as claimed: get with a string path on an open wrapper raises the     *)
(* ambiguous-path error when more than one node matches, returns None when  *)
(* none matches and the node's value when exactly one matches.              *)

C6_GetByMatchCount ==
    (OnOpen /\ res.op = "get" /\ IsStr(res.args[1])) =>
        /\ Len(calls) = 1
        /\ LET nat == calls[1].out
           IN /\ nat.nmatch > 1 => Raised(AmbiguousPathError)
              /\ nat.nmatch = 0 => (Returned /\ res.val = PyNone)
              /\ nat.nmatch = 1 =>
                    /\ Returned
                    /\ IF nat.value.null THEN res.val = PyNone
                       ELSE /\ res.val.t = "str"
                            /\ (IF PY3 THEN Utf8Encode(res.val.v) ELSE res.val.v) = nat.value.b

----------------------------------------------------------------------------
(* C7, as claimed: set(path, None), setm(base, None, value) and             *)
(* defvar(name, None) on an open wrapper call the native entry point once   *)
(* with a null pointer for the absent argument, and return when it reports  *)
(* success, on Python 2 and on Python 3.                                    *)

C7_AbsentArgumentAccepted ==
    (/\ OnOpen /\ res.op \in {"set", "setm", "defvar"}
     /\ WellTyped(res.op, res.args) /\ res.args[2] = PyNone) =>
        /\ Len(calls) = 1
        /\ calls[1].args[2] = PyNone
        /\ ~NativeFailed(calls[1]) => Returned

----------------------------------------------------------------------------
(* C8, as claimed: on an open wrapper with correctly typed arguments each   *)
(* of set, setm, defvar, defnode, move, insert, span, save and load makes   *)
(* exactly one native call, leaves the handle open and maps the code r:     *)
(* set, move, insert raise InvalidOperationError iff r # 0; save IOError    *)
(* iff r # 0; load LoadError iff r # 0; setm, defvar, defnode raise         *)
(* InvalidOperationError iff r < 0 and else return r; span SpanError iff    *)
(* r < 0.                                                                   *)

C8_ReturnCodeMapping ==
    (/\ OnOpen /\ WellTyped(res.op, res.args)
     /\ res.op \in {"set", "setm", "defvar", "defnode", "move", "insert",
                    "span", "save", "load"}) =>
        /\ Len(calls) = 1
        /\ handle = "open"
        /\ LET r == calls[1].ret
               invalidOp == res.out = "raise" /\ res.err.kind = "ValueError"
           IN CASE res.op \in {"set", "move", "insert"} ->
                     /\ invalidOp <=> r # 0
                     /\ r = 0 => Returned
                [] res.op = "save" ->
                     /\ Raised(SaveError) <=> r # 0
                     /\ r = 0 => Returned
                [] res.op = "load" ->
                     /\ Raised(LoadError) <=> r # 0
                     /\ r = 0 => Returned
                [] res.op \in {"setm", "defvar", "defnode"} ->
                     /\ invalidOp <=> r < 0
                     /\ r >= 0 => (Returned /\ res.val = PyInt(r))
                [] res.op = "span" ->
                     /\ Raised(SpanError) <=> r < 0
                     /\ r >= 0 => Returned

----------------------------------------------------------------------------
(* C9, as claimed: __init__ raises InitializationError when aug_init        *)
(* returns NULL, and InvalidArgument without calling aug_init when an       *)
(* argument has the wrong type; after either failure the wrapper holds no   *)
(* handle, and close(), called explicitly or by __del__, returns normally   *)
(* without calling aug_close.                                               *)

InitWellTyped(args) ==
    IsOptStr(args[1]) /\ IsOptStr(args[2]) /\ args[3].t \in {"int", "bool"}

C9_FailedConstructionCloses ==
    /\ res.op = "__init__" =>
          /\ ~InitWellTyped(res.args) =>
                (res.out = "raise" /\ res.err.kind = "TypeError" /\ calls = <<>>)
          /\ (InitWellTyped(res.args) /\ calls[1].out = "null") =>
                Raised(InitializationError)
    /\ phase = "failed" => handle # "open"
    /\ (res.op \in {"close", "__del__"} /\ res.ppre = "failed") =>
          (Returned /\ calls = <<>> /\ nclose = 0)

----------------------------------------------------------------------------
(* C10: match with a string path on an open wrapper raises MatchError when  *)
(* aug_match returns a negative count; when it returns n >= 0 it returns    *)
(* the n paths in the array's order, having freed each of the n native      *)
(* strings once and the array once, and having read nothing it had freed.   *)

NFrees(obj, idx) ==
    Cardinality({k \in 1..Len(mem) :
                    mem[k].ev = "free" /\ mem[k].obj = obj /\ mem[k].idx = idx})

\* no read of a string after its free, nor of the array after its free
NoUseAfterFree ==
    \A j, k \in 1..Len(mem) :
        (j < k /\ mem[j].ev = "free" /\ mem[k].ev = "read") =>
            /\ mem[j].obj = "string" => ~(mem[k].obj = "string" /\ mem[k].idx = mem[j].idx)
            /\ mem[j].obj = "array" => mem[k].obj # "array"

C10_MatchReleasesNativeMemory ==
    (OnOpen /\ res.op = "match" /\ IsStr(res.args[1])) =>
        /\ Len(calls) = 1
        /\ LET n == calls[1].ret
               array == calls[1].out
           IN IF n < 0 THEN Raised(MatchError)
              ELSE /\ Returned
                   /\ res.val.t = "list"
                   /\ Len(res.val.v) = n
                   /\ \A i \in 1..n :
                         /\ res.val.v[i].t = "str"
                         /\ (IF PY3 THEN Utf8Encode(res.val.v[i].v) ELSE res.val.v[i].v)
                               = array[i].b
                         /\ NFrees("string", i) = 1
                         /\ \E k \in 1..Len(mem) :
                               mem[k] = Ev("read", "string", i)
                   /\ NFrees("array", 0) = 1
                   /\ Cardinality({k \in 1..Len(mem) : mem[k].ev = "free"}) = n + 1
                   /\ NoUseAfterFree

C10_Witness ==
    /\ OnOpen /\ res.op = "match" /\ Returned
    /\ Len(res.val.v) = MaxMatches
    /\ res.val.v[1] # res.val.v[MaxMatches]
    /\ Len(mem) > MaxMatches

----------------------------------------------------------------------------
(* The transform name add_transform uses, read off the path of its first    *)
(* set call, "/augeas/load/<name>/lens"                                     *)

\* the first place of c in s, 0 if there is none
FirstIndexOf(s, c) ==
    IF \E i \in 1..Len(s) : s[i] = c
    THEN CHOOSE i \in 1..Len(s) : s[i] = c /\ \A j \in 1..(i - 1) : s[j] # c
    ELSE 0
\* s without its extension: what stands before the first "."
Stem(s) ==
    LET d == FirstIndexOf(s, 46) IN IF d = 0 THEN s ELSE SubSeq(s, 1, d - 1)
StripLeadingAt(s) == IF s # <<>> /\ s[1] = 64 THEN SubSeq(s, 2, Len(s)) ELSE s
WithoutFirstAt(s) ==
    LET a == FirstIndexOf(s, 64)
    IN IF a = 0 THEN s ELSE SubSeq(s, 1, a - 1) \o SubSeq(s, a + 1, Len(s))

\* add_transform ran on an open wrapper with correctly typed arguments
AddTransformDone ==
    OnOpen /\ res.op = "add_transform" /\ WellTyped(res.op, res.args)
\* the path of the lens entry of the transform called nm, as passed to aug_set
LensPathOf(nm) == Safe(PyStr(LoadPrefix \o nm \o Slash \o LensLabel))
UsesName(nm) == Len(calls) >= 1 /\ calls[1].args[1] = LensPathOf(nm)

(* C11, as claimed: without a name (None or ""), the name used is the lens  *)
(* with a leading "@" stripped and its extension removed, whatever the      *)
(* lens string; a non-empty name is used as given.                          *)

C11_Original ==
    AddTransformDone =>
        IF Falsy(res.args[3])
        THEN UsesName(StripLeadingAt(Stem(res.args[1].v)))
        ELSE UsesName(res.args[3].v)

(* C11, amended: without a name (None or ""), the name used is the part of  *)
(* the lens string before its first ".", with the first "@" of that part    *)
(* removed wherever it stands; that is the lens with a leading "@" stripped *)
(* and its extension removed whenever that part holds no "@" after its      *)
(* first character.  A non-empty name is used as given.                     *)

C11_NameFromLens ==
    AddTransformDone =>
        IF Falsy(res.args[3])
        THEN LET stem == Stem(res.args[1].v)
             IN /\ UsesName(WithoutFirstAt(stem))
                /\ FirstIndexOf(stem, 64) <= 1 => UsesName(StripLeadingAt(stem))
        ELSE UsesName(res.args[3].v)

\* the lens "b@c" given without a name: the transform is called "bc"
C11_Witness ==
    /\ AddTransformDone /\ Falsy(res.args[3])
    /\ FirstIndexOf(Stem(res.args[1].v), 64) > 1
    /\ UsesName(<<98, 99>>)

----------------------------------------------------------------------------
(* C12, as claimed: add_transform on an open wrapper calls aug_set for      *)
(* /augeas/load/<name>/lens, then for incl[1] .. incl[n], then for          *)
(* excl[1] .. excl[m], in this order and with these values, an incl or excl *)
(* given as one string counting as a sequence of one; a set call that fails *)
(* ends it with that call's error and no later set call; otherwise all      *)
(* 1 + n + m calls are made.                                                *)

\* one string is a sequence of one pattern
OneOrMany(x) == IF x.t = "str" THEN <<x>> ELSE x.v

\* the aug_set calls add_transform is to make: <<path, value>> as passed
ExpectedSets(lens, incl, name, excl) ==
    LET nm == IF Falsy(name) THEN WithoutFirstAt(Stem(lens.v)) ELSE name.v
        xfm == LoadPrefix \o nm \o Slash
        ins == OneOrMany(incl)
        exs == OneOrMany(excl)
        entry(label, i, val) ==
            <<Safe(PyStr(xfm \o label \o Decimal(i) \o IndexClose)), Safe(val)>>
    IN <<<<Safe(PyStr(xfm \o LensLabel)), Safe(lens)>>>>
       \o [i \in 1..Len(ins) |-> entry(InclOpen, i, ins[i])]
       \o [j \in 1..Len(exs) |-> entry(ExclOpen, j, exs[j])]

C12_SetCallsInOrder ==
    AddTransformDone =>
        LET want == ExpectedSets(res.args[1], res.args[2], res.args[3], res.args[4])
            made == Len(calls)
        IN /\ 1 <= made /\ made <= Len(want)
           /\ \A k \in 1..made :
                 /\ calls[k].fn = "aug_set"
                 /\ calls[k].args = want[k]
                 /\ k < made => calls[k].ret = 0
           /\ IF calls[made].ret # 0
              THEN Raised(InvalidOperationError("Unable to set value to path!"))
              ELSE Returned /\ made = Len(want)

====
